---- MODULE Spec2Model ----
(***************************************************************************)
(* Steam Vanity Url Checker: the zero-less numeral codec (base.py) and the *)
(* generate / check / save engine (steam.py) with its two callers, the     *)
(* interactive menu (menu.py) and the GitHub action (github.py).           *)
(*                                                                         *)
(* A string is a sequence of one-character strings; a text file is the     *)
(* sequence of its characters, "\n" included.                              *)
(***************************************************************************)
EXTENDS Integers, Sequences, FiniteSets, Bags, TLC

VARIABLES
    \* ---- base.py: one call of to_base / from_base, loop by loop
    base,        \* the alphabet of the call
    codec_pc,    \* "idle" | "to_base" | "from_base" | "to_base_ret" | "from_base_ret" | "ValueError"
    arg,         \* <<argument of the call>> (<<>> before any call)
    tb_num,      \* to_base: the loop variable num
    tb_r,        \* to_base: the accumulator r (a string)
    fb_num,      \* from_base: the characters of num not yet consumed
    fb_r,        \* from_base: the accumulator r (an integer)
    \* ---- steam.py: module state, event loop, files
    gen_list,    \* steam.gen_list
    check_list,  \* steam.check_list
    tasks,       \* the check_url tasks gathered by the latest dispatching check_urls
    stale,       \* bag of urls: tasks of interrupted runs still pending on the event loop
    content,     \* <<body>> of the latest response.text() that returned (<<>>: none yet)
    files,       \* path -> <<>> (no such file) or <<text>>
    pc,          \* main thread: "ready" | "checking" | "exited" | "crashed"
    entry,       \* the caller: "menu" | "github" | "api" (a direct caller of steam.py)
    gh_i,        \* github.uid_action: number of the wrapper call that runs next
    last_gen,    \* the latest generation call and how it ended
    ret,         \* how the latest check_urls call ended
    runs,        \* number of check_urls calls that dispatched tasks
    echoed,      \* the urls _print_url printed during the latest generation call
    \* ---- config.py, menu.py: the configuration menu
    config,      \* config[Section.USER]: the two length properties, as strings
    cfg_op       \* the latest operation of the configuration menu and its input

codec_vars == <<base, codec_pc, arg, tb_num, tb_r, fb_num, fb_r>>
steam_vars == <<gen_list, check_list, tasks, stale, content, files, pc, entry,
                gh_i, last_gen, ret, runs, echoed>>
config_vars == <<config, cfg_op>>
vars == <<codec_vars, steam_vars, config_vars>>

(***************************************************************************)
(* Bounds of the model.                                                    *)
(***************************************************************************)
MaxNum == 45       \* to_base is called with num in MinNum..MaxNum
MaxStrLen == 3     \* from_base is called with strings of 1..MaxStrLen symbols
MaxLen == 2        \* bz_gen_urls is called with lengths in 0..MaxLen
MaxTasks == 3      \* check_urls dispatches at most MaxTasks tasks
MaxRuns == 2       \* at most MaxRuns dispatching check_urls calls
MaxIter == 8       \* the loop of to_base is followed for at most MaxIter iterations

MinNum == 0 - 2

(***************************************************************************)
(* Strings.                                                                *)
(***************************************************************************)
RECURSIVE Strings(_, _)
\* the strings of exactly n symbols of the alphabet b
Strings(b, n) ==
    IF n = 0 THEN {<<>>}
    ELSE {<<b[i]>> \o s : i \in 1..Len(b), s \in Strings(b, n - 1)}

\* the strings of lo..hi symbols of the alphabet b
StringsOfLen(b, lo, hi) == UNION {Strings(b, n) : n \in lo..hi}

\* Python: ch * n
RECURSIVE Repeat(_, _)
Repeat(ch, n) == IF n <= 0 THEN <<>> ELSE <<ch>> \o Repeat(ch, n - 1)

\* Python: base.index(ch), 0-based
index(b, ch) == (CHOOSE i \in 1..Len(b) : b[i] = ch /\ \A j \in 1..(i - 1) : b[j] # ch) - 1

(***************************************************************************)
(* base.py                                                                 *)
(***************************************************************************)
\* faulty variant of to_base_iter: the digit is appended to r, not prepended
to_base_iter_swapped(num, r, b) ==
    LET base_len == Len(b)
        mod == (num - 1) % base_len
    IN  [num |-> (num - mod) \div base_len, r |-> r \o <<b[mod + 1]>>]

\* faulty variant of to_base_iter: num // base_len without the "- mod"
to_base_iter_nosub(num, r, b) ==
    LET base_len == Len(b)
        mod == (num - 1) % base_len
    IN  [num |-> num \div base_len, r |-> <<b[mod + 1]>> \o r]

\* faulty variant of to_base_iter: ordinary positional digits, the first
\* symbol standing for zero
to_base_iter_positional(num, r, b) ==
    LET base_len == Len(b)
        mod == num % base_len
    IN  [num |-> num \div base_len, r |-> <<b[mod + 1]>> \o r]

\* one iteration of the while loop of to_base, lines 39-41
to_base_iter(num, r, b) ==
    LET base_len == Len(b)
        mod == (num - 1) % base_len
    IN  [num |-> (num - mod) \div base_len, r |-> <<b[mod + 1]>> \o r]

RECURSIVE to_base_loop(_, _, _)
to_base_loop(num, r, b) ==
    IF num # 0
    THEN LET it == to_base_iter(num, r, b) IN to_base_loop(it.num, it.r, b)
    ELSE r

\* faulty variant of to_base_raises: 0 is let through
to_base_raises_nonpos(num) == num < 0

\* the guard of to_base, line 32
to_base_raises(num) == num < 1

\* to_base(num, base): [exc |-> "ValueError"] or [exc |-> "none", r |-> the string]
to_base(num, b) ==
    IF to_base_raises(num)
    THEN [exc |-> "ValueError", r |-> <<>>]
    ELSE [exc |-> "none", r |-> to_base_loop(num, <<>>, b)]

\* faulty variant of from_base_iter: the first symbol counts as a zero digit
from_base_iter_zero(r, ch, b) == r * Len(b) + index(b, ch)

\* one iteration of the for loop of from_base, line 60
from_base_iter(r, ch, b) == r * Len(b) + index(b, ch) + 1

RECURSIVE from_base_loop(_, _, _)
from_base_loop(num, r, b) ==
    IF num = <<>> THEN r
    ELSE from_base_loop(Tail(num), from_base_iter(r, Head(num), b), b)

from_base(num, b) == from_base_loop(num, 0, b)

Alphabets == {<<"a", "b">>, <<"a", "b", "c">>}

CodecInit ==
    /\ base \in Alphabets
    /\ codec_pc = "idle"
    /\ arg = <<>>
    /\ tb_num = 0
    /\ tb_r = <<>>
    /\ fb_num = <<>>
    /\ fb_r = 0

\* to_base, lines 32-37: the call and the guard
ToBaseCall ==
    /\ codec_pc = "idle"
    /\ \E n \in MinNum..MaxNum :
        /\ arg' = <<n>>
        /\ IF to_base_raises(n)
           THEN /\ codec_pc' = "ValueError"
                /\ UNCHANGED <<tb_num, tb_r>>
           ELSE /\ codec_pc' = "to_base"
                /\ tb_num' = n
                /\ tb_r' = <<>>
    /\ UNCHANGED <<base, fb_num, fb_r>>
    /\ UNCHANGED <<steam_vars, config_vars>>

\* to_base, lines 38-41: one iteration
ToBaseLoop ==
    /\ codec_pc = "to_base"
    /\ tb_num # 0
    /\ Len(tb_r) < MaxIter
    /\ LET it == to_base_iter(tb_num, tb_r, base)
       IN  /\ tb_num' = it.num
           /\ tb_r' = it.r
    /\ UNCHANGED <<base, codec_pc, arg, fb_num, fb_r>>
    /\ UNCHANGED <<steam_vars, config_vars>>

\* to_base, line 43
ToBaseReturn ==
    /\ codec_pc = "to_base"
    /\ tb_num = 0
    /\ codec_pc' = "to_base_ret"
    /\ UNCHANGED <<base, arg, tb_num, tb_r, fb_num, fb_r>>
    /\ UNCHANGED <<steam_vars, config_vars>>

\* from_base, lines 56-58: the call
FromBaseCall ==
    /\ codec_pc = "idle"
    /\ \E s \in StringsOfLen(base, 1, MaxStrLen) :
        /\ arg' = <<s>>
        /\ fb_num' = s
    /\ fb_r' = 0
    /\ codec_pc' = "from_base"
    /\ UNCHANGED <<base, tb_num, tb_r>>
    /\ UNCHANGED <<steam_vars, config_vars>>

\* from_base, lines 59-60: one iteration
FromBaseLoop ==
    /\ codec_pc = "from_base"
    /\ fb_num # <<>>
    /\ fb_r' = from_base_iter(fb_r, Head(fb_num), base)
    /\ fb_num' = Tail(fb_num)
    /\ UNCHANGED <<base, codec_pc, arg, tb_num, tb_r>>
    /\ UNCHANGED <<steam_vars, config_vars>>

\* from_base, line 62
FromBaseReturn ==
    /\ codec_pc = "from_base"
    /\ fb_num = <<>>
    /\ codec_pc' = "from_base_ret"
    /\ UNCHANGED <<base, arg, tb_num, tb_r, fb_num, fb_r>>
    /\ UNCHANGED <<steam_vars, config_vars>>

CodecNext ==
    \/ ToBaseCall
    \/ ToBaseLoop
    \/ ToBaseReturn
    \/ FromBaseCall
    \/ FromBaseLoop
    \/ FromBaseReturn

(***************************************************************************)
(* Python built-ins used by steam.py.                                      *)
(***************************************************************************)
\* ord(c) for the characters of the model
ord(c) ==
    CASE c = "\n" -> 10
      [] c = "-" -> 45
      [] c = "0" -> 48
      [] c = "1" -> 49
      [] c = "_" -> 95
      [] c = "a" -> 97
      [] c = "b" -> 98
      [] c = "c" -> 99

\* Python: s < t on str (lexicographic by code point)
RECURSIVE str_lt(_, _)
str_lt(s, t) ==
    IF t = <<>> THEN FALSE
    ELSE IF s = <<>> THEN TRUE
    ELSE IF Head(s) # Head(t) THEN ord(Head(s)) < ord(Head(t))
    ELSE str_lt(Tail(s), Tail(t))

\* insertion of x into the sorted list l, after the elements not greater than it
RECURSIVE insort(_, _)
insort(l, x) ==
    IF l = <<>> THEN <<x>>
    ELSE IF str_lt(x, Head(l)) THEN <<x>> \o l
    ELSE <<Head(l)>> \o insort(Tail(l), x)

\* Python: sorted(l) on a list of str
RECURSIVE sorted(_)
sorted(l) == IF l = <<>> THEN <<>> ELSE insort(sorted(SubSeq(l, 1, Len(l) - 1)), l[Len(l)])

\* Python: '\n'.join(l)
RECURSIVE join(_)
join(l) ==
    IF l = <<>> THEN <<>>
    ELSE IF Len(l) = 1 THEN l[1]
    ELSE l[1] \o <<"\n">> \o join(Tail(l))

\* Python: text.split('\n')
RECURSIVE split_acc(_, _, _)
split_acc(text, cur, out) ==
    IF text = <<>> THEN out \o <<cur>>
    ELSE IF Head(text) = "\n" THEN split_acc(Tail(text), <<>>, out \o <<cur>>)
    ELSE split_acc(Tail(text), cur \o <<Head(text)>>, out)

split(text) == split_acc(text, <<>>, <<>>)

\* Python: [x for x in l if x]
RECURSIVE non_empty(_)
non_empty(l) ==
    IF l = <<>> THEN <<>>
    ELSE IF Head(l) # <<>> THEN <<Head(l)>> \o non_empty(Tail(l))
    ELSE non_empty(Tail(l))

\* the elements of a list, as a set and as a bag
Elems(l) == {l[i] : i \in 1..Len(l)}

RECURSIVE BagOf(_)
BagOf(l) == IF l = <<>> THEN EmptyBag ELSE SetToBag({Head(l)}) (+) BagOf(Tail(l))

(***************************************************************************)
(* config.py: the patterns, and the regular expressions of the model.      *)
(***************************************************************************)
PatternANY == ".*"
PatternONLY_DIGITS == "^[0-9]+$"
PatternONLY_LETTERS == "^[a-z]+$"

\* the patterns bz_gen_urls is called with: the three of config.Pattern, the
\* empty pattern (replaced by the default), a one-character pattern and a
\* pattern that does not compile
Patterns == {"", PatternANY, PatternONLY_DIGITS, PatternONLY_LETTERS, "0", "("}

IsDigit(c) == c \in {"0", "1"}
IsLetter(c) == c \in {"a", "b", "c"}

\* re.compile(pattern) raises re.error
compile_raises(pattern) == pattern = "("

\* re.compile(pattern).fullmatch(url) is not None, for comparison
search_fullmatch(pattern, url) ==
    CASE pattern = PatternANY -> TRUE
      [] pattern = PatternONLY_DIGITS -> url # <<>> /\ \A i \in 1..Len(url) : IsDigit(url[i])
      [] pattern = PatternONLY_LETTERS -> url # <<>> /\ \A i \in 1..Len(url) : IsLetter(url[i])
      [] pattern = "0" -> url = <<"0">>

\* re.compile(pattern).search(url) is not None
search(pattern, url) ==
    CASE pattern = PatternANY -> TRUE
      [] pattern = PatternONLY_DIGITS -> url # <<>> /\ \A i \in 1..Len(url) : IsDigit(url[i])
      [] pattern = PatternONLY_LETTERS -> url # <<>> /\ \A i \in 1..Len(url) : IsLetter(url[i])
      [] pattern = "0" -> \E i \in 1..Len(url) : url[i] = "0"

(***************************************************************************)
(* steam.py                                                                *)
(***************************************************************************)
\* steam._base, scaled from 38 symbols to its first letter and its first digit
base_ == <<"a", "0">>

default_pattern == PatternANY

\* Python: range(a, b) as a list
range(a, b) == [i \in 1..(IF b > a THEN b - a ELSE 0) |-> a + i - 1]

\* lines 77-80: the urls of the indices the pattern finds, in index order
RECURSIVE gen_loop(_, _)
gen_loop(indices, pattern) ==
    IF indices = <<>> THEN <<>>
    ELSE LET url == to_base(Head(indices), base_).r
         IN  (IF search(pattern, url) THEN <<url>> ELSE <<>>) \o gen_loop(Tail(indices), pattern)

\* line 67 left out, for comparison
clear_skipped(l) == l

\* a clear that leaves the first element, for comparison
clear_keep_first(l) == IF l = <<>> THEN <<>> ELSE <<Head(l)>>

\* Python: the list l after l.clear()
clear(l) == <<>>

\* line 57 with its second test left out, for comparison
bz_raises_min_only(min_len, max_len) == min_len < 1

\* line 57: the arguments bz_gen_urls raises ValueError for
bz_raises(min_len, max_len) == min_len < 1 \/ max_len < min_len

\* bz_gen_urls with line 67 moved above the guard of lines 57-58, for comparison
bz_gen_urls_clear_first(gl, min_len, max_len, pattern, history) ==
    IF bz_raises(min_len, max_len)
    THEN [exc |-> "ValueError", gen_list |-> clear(gl), echo |-> <<>>]
    ELSE LET pat == IF pattern = "" THEN default_pattern ELSE pattern
             left == from_base(Repeat(base_[1], min_len), base_)
             right == from_base(Repeat(base_[Len(base_)], max_len), base_)
         IN  IF compile_raises(pat)
             THEN [exc |-> "none", gen_list |-> clear(gl), echo |-> <<>>]
             ELSE LET urls == gen_loop(range(left, right), pat)
                  IN  [exc |-> "none", gen_list |-> clear(gl) \o urls,
                       echo |-> IF history THEN urls ELSE <<>>]

\* bz_gen_urls(min_len, max_len, pattern, history) called with gen_list = gl:
\* the exception raised, gen_list after the call and the urls printed by
\* lines 82-83 (history is False for a call with None, line 63)
bz_gen_urls(gl, min_len, max_len, pattern, history) ==
    IF bz_raises(min_len, max_len)
    THEN [exc |-> "ValueError", gen_list |-> gl, echo |-> <<>>]
    ELSE LET pat == IF pattern = "" THEN default_pattern ELSE pattern
             left == from_base(Repeat(base_[1], min_len), base_)
             right == from_base(Repeat(base_[Len(base_)], max_len), base_)
             cleared == clear(gl)
         IN  IF compile_raises(pat)
             THEN [exc |-> "none", gen_list |-> cleared, echo |-> <<>>]
             ELSE LET urls == gen_loop(range(left, right), pat)
                  IN  [exc |-> "none", gen_list |-> cleared \o urls,
                       echo |-> IF history THEN urls ELSE <<>>]

\* line 101 without its `if url`, for comparison
fp_gen_urls_keep_empty(text) == split(text)

\* fp_gen_urls, line 101: gen_list read from the text of the file
fp_gen_urls(text) == non_empty(split(text))

\* the markers of lines 136-137 and the response bodies of the model: a body
\* is a sequence of fragments, each a marker or other text
ReturnLink == "<p class=\"returnLink\">"
Removed == "This group has been removed"
Bodies == {<<>>, <<"<html>">>, <<ReturnLink>>, <<Removed>>, <<ReturnLink, Removed>>,
           <<Removed, ReturnLink>>}

\* Python: marker in content
contains(body, marker) == \E i \in 1..Len(body) : body[i] = marker

\* lines 135-137 without the test of line 137, for comparison
available_any_link(body) ==
    /\ body # <<>>
    /\ contains(body, ReturnLink)

\* lines 135-137
available(body) ==
    /\ body # <<>>
    /\ contains(body, ReturnLink)
    /\ ~contains(body, Removed)

\* line 159 without sorted(), for comparison
save_text_unsorted(cl) == join(cl)

\* save_urls, line 159: the text written
save_text(cl) == join(sorted(cl))

\* config.py: the file names of the menu; github.py line 27: those of the action
InPath == "Checkable.txt"
OutPath == "Available.txt"
GhPath(endpoint) == IF endpoint = "id" THEN "gh#u-id.txt" ELSE "gh#u-groups.txt"
Paths == {InPath, OutPath, GhPath("id"), GhPath("groups")}

\* github.uid_action, lines 45-46: the two wrapper calls, their lengths scaled
\* to the alphabet and the task bound of the model
GhCalls == <<[min_len |-> 2, max_len |-> 2, endpoint |-> "id"],
             [min_len |-> 1, max_len |-> 1, endpoint |-> "groups"]>>

\* the texts fp_gen_urls may find in its file
InTexts == {<<>>,
            join(<< <<"a">>, <<"a">> >>),
            join(<< <<"0">>, <<>>, <<"a", "0">>, <<>> >>)}

Pending(t) == t.st \in {"new", "get", "text"}

\* a gather that only counts the tasks that appended, for comparison
Finished_only_ok(t) == t.st = "ok"

Finished(t) == t.st \in {"ok", "no", "err"}

\* the urls of the tasks of ts that are still pending, as a bag
RECURSIVE pending_urls(_)
pending_urls(ts) ==
    IF ts = <<>> THEN EmptyBag
    ELSE (IF Pending(Head(ts)) THEN SetToBag({Head(ts).url}) ELSE EmptyBag)
         (+) pending_urls(Tail(ts))

SteamIdle ==
    /\ gen_list = <<>>
    /\ check_list = <<>>
    /\ tasks = <<>>
    /\ stale = EmptyBag
    /\ content = <<>>
    /\ files = [p \in Paths |-> <<>>]
    /\ pc = "ready"
    /\ entry = "api"
    /\ gh_i = 1
    /\ last_gen = [fn |-> "none"]
    /\ ret = "none"
    /\ runs = 0
    /\ echoed = <<>>

SteamInit ==
    /\ gen_list = <<>>
    /\ check_list = <<>>
    /\ tasks = <<>>
    /\ stale = EmptyBag
    /\ content = <<>>
    /\ files = [p \in Paths |-> <<>>]
    /\ pc = "ready"
    /\ entry \in {"menu", "github"}
    /\ gh_i = 1
    /\ last_gen = [fn |-> "none"]
    /\ ret = "none"
    /\ runs = 0
    /\ echoed = <<>>

CodecIdle ==
    /\ base = base_
    /\ codec_pc = "idle"
    /\ arg = <<>>
    /\ tb_num = 0
    /\ tb_r = <<>>
    /\ fb_num = <<>>
    /\ fb_r = 0

\* lines 158-159 with check_list.sort() in the place of sorted(check_list),
\* for comparison
save_urls_sort_in_place(path, cl) ==
    [files |-> [files EXCEPT ![path] = <<save_text(cl)>>], check_list |-> sorted(cl)]

\* save_urls(path) with check_list = cl, lines 158-159: the files and
\* check_list after the call (sorted() builds a new list)
save_urls(path, cl) ==
    [files |-> [files EXCEPT ![path] = <<save_text(cl)>>], check_list |-> cl]

\* menu.py, CheckUrlsElement.__check_urls, lines 305-313: what follows the end
\* of check_urls. KeyboardInterrupt is caught and save_urls runs; any other
\* exception leaves the handler and the menu loop before save_urls
menu_check_urls_end(outcome, cl) ==
    /\ gh_i' = gh_i
    /\ IF outcome = "ClientError"
       THEN /\ pc' = "crashed"
            /\ files' = files
            /\ check_list' = cl
       ELSE /\ pc' = "ready"
            /\ files' = save_urls(OutPath, cl).files
            /\ check_list' = save_urls(OutPath, cl).check_list

\* github.py, uid_action, lines 40-48: what follows the end of check_urls.
\* Normal return: save_urls, then the next wrapper call. KeyboardInterrupt
\* leaves both wrapper calls and is caught by uid_action; any other exception
\* leaves uid_action
uid_action_end(outcome, cl) ==
    IF outcome \in {"returned", "empty"}
    THEN /\ files' = save_urls(GhPath(GhCalls[gh_i].endpoint), cl).files
         /\ check_list' = save_urls(GhPath(GhCalls[gh_i].endpoint), cl).check_list
         /\ gh_i' = gh_i + 1
         /\ pc' = IF gh_i = Len(GhCalls) THEN "exited" ELSE "ready"
    ELSE /\ files' = files
         /\ check_list' = cl
         /\ gh_i' = gh_i
         /\ pc' = IF outcome = "KeyboardInterrupt" THEN "exited" ELSE "crashed"

\* check_urls ends with `outcome`, check_list being cl: control is back in
\* the caller, which may call save_urls
CheckEnds(outcome, cl) ==
    /\ ret' = outcome
    /\ IF entry = "menu" THEN menu_check_urls_end(outcome, cl) ELSE uid_action_end(outcome, cl)

\* line 144 with the last candidate left out, for comparison
gather_tasks_short(gl) ==
    [i \in 1..(IF Len(gl) > 1 THEN Len(gl) - 1 ELSE Len(gl)) |->
        [url |-> gl[i], st |-> "new", echo |-> 0]]

\* line 144: gather makes a task of check_url(session, url) for each url of
\* gen_list; echo counts the calls of _print_url(url) by the task (line 131)
gather_tasks(gl) == [i \in 1..Len(gl) |-> [url |-> gl[i], st |-> "new", echo |-> 0]]

\* check_urls, lines 112-147, called with gen_list = gl: the early return, or
\* the clear and the dispatch of one task per element of gen_list
check_urls_begin(gl) ==
    IF gl = <<>>
    THEN /\ CheckEnds("empty", check_list)
         /\ content' = <<>>
         /\ UNCHANGED <<tasks, stale, runs>>
    ELSE /\ Len(gl) <= MaxTasks
         /\ runs < MaxRuns
         /\ check_list' = <<>>
         /\ tasks' = gather_tasks(gl)
         /\ runs' = runs + 1
         /\ pc' = "checking"
         /\ ret' = "running"
         /\ content' = <<>>
         /\ UNCHANGED <<stale, files, gh_i>>

\* menu.py, lines 263-270: the arguments the menu passes to bz_gen_urls, those
\* of the default configuration (config.py, lines 89-93) with the lengths scaled
MenuConfig == [min_len |-> 1, max_len |-> 1, pattern |-> PatternANY, history |-> TRUE]

\* the arguments bz_gen_urls is called with: by the menu, and by a direct caller
BzArgs ==
    IF entry = "menu" THEN {MenuConfig}
    ELSE [min_len : 0..MaxLen, max_len : 0..MaxLen, pattern : Patterns, history : BOOLEAN]

\* steam.bz_gen_urls is called: by GenUrlsElement.__bz_gen_urls of the menu
\* (an exception leaves the menu loop) or by a direct caller
BzGenUrls ==
    /\ pc = "ready"
    /\ entry \in {"menu", "api"}
    /\ \E a \in BzArgs :
        LET g == bz_gen_urls(gen_list, a.min_len, a.max_len, a.pattern, a.history)
        IN  /\ gen_list' = g.gen_list
            /\ echoed' = g.echo
            /\ last_gen' = [fn |-> "bz", min_len |-> a.min_len, max_len |-> a.max_len,
                            pattern |-> a.pattern, exc |-> g.exc]
            /\ pc' = IF g.exc # "none" /\ entry = "menu" THEN "crashed" ELSE "ready"
    /\ content' = <<>>
    /\ UNCHANGED <<check_list, tasks, stale, files, entry, gh_i, ret, runs>>
    /\ UNCHANGED <<codec_vars, config_vars>>

\* steam.fp_gen_urls is called on the input file, which is absent (f = <<>>)
\* or holds one of InTexts: lines 95-101
FpGenUrls ==
    /\ pc = "ready"
    /\ entry \in {"menu", "api"}
    /\ \E f \in {<<>>} \cup {<<t>> : t \in InTexts} :
        LET text == IF f = <<>> THEN <<>> ELSE f[1]
        IN  /\ files' = [files EXCEPT ![InPath] = <<text>>]
            /\ gen_list' = fp_gen_urls(text)
            /\ last_gen' = [fn |-> "fp", file |-> f, exc |-> "none"]
    /\ echoed' = <<>>
    /\ content' = <<>>
    /\ UNCHANGED <<check_list, tasks, stale, pc, entry, gh_i, ret, runs>>
    /\ UNCHANGED <<codec_vars, config_vars>>

\* menu.py, CheckUrlsElement.__check_urls: steam.check_urls is called
MenuCheck ==
    /\ pc = "ready"
    /\ entry = "menu"
    /\ check_urls_begin(gen_list)
    /\ UNCHANGED <<gen_list, entry, last_gen, echoed>>
    /\ UNCHANGED <<codec_vars, config_vars>>

\* github.py, uid_action.wrapper, lines 40-41: bz_gen_urls, then check_urls is called
GhWrapper ==
    /\ pc = "ready"
    /\ entry = "github"
    /\ gh_i \in 1..Len(GhCalls)
    /\ LET c == GhCalls[gh_i]
           g == bz_gen_urls(gen_list, c.min_len, c.max_len, "", FALSE)
       IN  /\ gen_list' = g.gen_list
           /\ echoed' = g.echo
           /\ last_gen' = [fn |-> "bz", min_len |-> c.min_len, max_len |-> c.max_len,
                           pattern |-> "", exc |-> g.exc]
           /\ check_urls_begin(g.gen_list)
    /\ UNCHANGED entry
    /\ UNCHANGED <<codec_vars, config_vars>>

SetSt(i, st) == [tasks EXCEPT ![i].st = st]

\* line 138 with insert(0, url) in the place of append(url), for comparison
append_front(l, x) == <<x>> \o l

\* Python: l.append(x), line 138
append(l, x) == Append(l, x)

\* the history argument of check_urls: the menu passes the URL_HISTORY of
\* its configuration (menu.py, lines 305-308), github.py (line 41) none,
\* which line 115 turns into False
history_of(caller) == IF caller = "menu" THEN MenuConfig.history ELSE FALSE

\* check_url, line 128: the task starts and issues its request
TaskStart(i) ==
    /\ pc = "checking"
    /\ tasks[i].st = "new"
    /\ tasks' = SetSt(i, "get")
    /\ content' = <<>>
    /\ UNCHANGED <<gen_list, check_list, stale, files, pc, entry, gh_i, last_gen, ret, runs, echoed>>
    /\ UNCHANGED <<codec_vars, config_vars>>

\* check_url, lines 128-133: the response arrives and the request is open; the
\* task prints its url if history is set and waits for the body
TaskGetOk(i) ==
    /\ pc = "checking"
    /\ tasks[i].st = "get"
    /\ tasks' = [tasks EXCEPT ![i].st = "text",
                              ![i].echo = @ + (IF history_of(entry) THEN 1 ELSE 0)]
    /\ content' = <<>>
    /\ UNCHANGED <<gen_list, check_list, stale, files, pc, entry, gh_i, last_gen, ret, runs, echoed>>
    /\ UNCHANGED <<codec_vars, config_vars>>

\* check_url, line 128: session.get raises ClientError outside the try of line
\* 129; gather (line 144) and run_until_complete (line 147) re-raise it, the
\* session is closed and check_urls raises to its caller
TaskGetFail(i) ==
    /\ pc = "checking"
    /\ tasks[i].st = "get"
    /\ tasks' = SetSt(i, "exc")
    /\ content' = <<>>
    /\ CheckEnds("ClientError", check_list)
    /\ UNCHANGED <<gen_list, stale, entry, last_gen, runs, echoed>>
    /\ UNCHANGED <<codec_vars, config_vars>>

\* check_url, lines 133-138: response.text() returns the body
TaskText(i) ==
    /\ pc = "checking"
    /\ tasks[i].st = "text"
    /\ \E body \in Bodies :
        /\ content' = <<body>>
        /\ IF available(body)
           THEN /\ check_list' = append(check_list, tasks[i].url)
                /\ tasks' = SetSt(i, "ok")
           ELSE /\ check_list' = check_list
                /\ tasks' = SetSt(i, "no")
    /\ UNCHANGED <<gen_list, stale, files, pc, entry, gh_i, last_gen, ret, runs, echoed>>
    /\ UNCHANGED <<codec_vars, config_vars>>

\* check_url, lines 133 and 139-140: response.text() raises, the task swallows it
TaskTextFail(i) ==
    /\ pc = "checking"
    /\ tasks[i].st = "text"
    /\ tasks' = SetSt(i, "err")
    /\ content' = <<>>
    /\ UNCHANGED <<gen_list, check_list, stale, files, pc, entry, gh_i, last_gen, ret, runs, echoed>>
    /\ UNCHANGED <<codec_vars, config_vars>>

\* a check_url task of an interrupted run, still pending on the event loop
\* of line 146, runs to its end while a later check_urls runs the loop:
\* lines 133-138 with the check_list of the later run, or a failure
StaleTask ==
    /\ pc = "checking"
    /\ \E u \in BagToSet(stale) :
        /\ stale' = stale (-) SetToBag({u})
        /\ \/ \E body \in Bodies :
                /\ content' = <<body>>
                /\ check_list' = IF available(body) THEN append(check_list, u) ELSE check_list
           \/ /\ content' = <<>>
              /\ check_list' = check_list
    /\ UNCHANGED <<gen_list, tasks, files, pc, entry, gh_i, last_gen, ret, runs, echoed>>
    /\ UNCHANGED <<codec_vars, config_vars>>

\* KeyboardInterrupt while run_until_complete (line 147) runs the loop: it
\* leaves check_urls; the tasks that are pending stay on the event loop
Interrupt ==
    /\ pc = "checking"
    /\ stale' = stale (+) pending_urls(tasks)
    /\ content' = <<>>
    /\ CheckEnds("KeyboardInterrupt", check_list)
    /\ UNCHANGED <<gen_list, tasks, entry, last_gen, runs, echoed>>
    /\ UNCHANGED <<codec_vars, config_vars>>

\* lines 144-147: every task of the gather is finished, check_urls returns
RunReturn ==
    /\ pc = "checking"
    /\ \A i \in 1..Len(tasks) : Finished(tasks[i])
    /\ content' = <<>>
    /\ CheckEnds("returned", check_list)
    /\ UNCHANGED <<gen_list, tasks, stale, entry, last_gen, runs, echoed>>
    /\ UNCHANGED <<codec_vars, config_vars>>

(***************************************************************************)
(* config.py, util.py, menu.py: the length properties of the configuration *)
(* and the menu elements that edit them.                                   *)
(***************************************************************************)
Digits == <<"0", "1", "2", "3", "4", "5", "6", "7", "8", "9">>

IsDecimal(c) == \E d \in 1..Len(Digits) : Digits[d] = c

\* Python: int(s) raises ValueError (strings of the characters of Inputs)
int_raises(s) ==
    \/ s = <<>>
    \/ LET body == IF s[1] \in {"-", "+"} THEN Tail(s) ELSE s
       IN  body = <<>> \/ \E k \in 1..Len(body) : ~IsDecimal(body[k])

RECURSIVE int_digits(_, _)
int_digits(body, acc) ==
    IF body = <<>> THEN acc
    ELSE int_digits(Tail(body), 10 * acc + index(Digits, Head(body)))

\* Python: int(s) when it does not raise
int(s) ==
    IF s[1] = "-" THEN 0 - int_digits(Tail(s), 0)
    ELSE IF s[1] = "+" THEN int_digits(Tail(s), 0)
    ELSE int_digits(s, 0)

RECURSIVE str_nat(_)
str_nat(n) ==
    IF n < 10 THEN <<Digits[n + 1]>>
    ELSE str_nat(n \div 10) \o <<Digits[(n % 10) + 1]>>

\* Python: str(n) for an integer n
str(n) == IF n < 0 THEN <<"-">> \o str_nat(0 - n) ELSE str_nat(n)

min(a, b) == IF a <= b THEN a ELSE b
max(a, b) == IF a >= b THEN a ELSE b

\* util.limit without its lower bound, for comparison
limit_no_floor(val, min_val, max_val) == min(val, max_val)

\* util.limit, line 60
limit(val, min_val, max_val) == max(min(val, max_val), min_val)

\* config.py, lines 90-91: the length properties of _default_params, which
\* read_cfg (lines 133-134) stores as strings in both sections
default_params == [min_len |-> str(3), max_len |-> str(3)]

\* menu.py, lines 591-592: the range of a length element, each end a number
\* or the name of the property that holds it
url_min_len_range ==
    [min_val |-> [num |-> TRUE, val |-> 2], max_val |-> [num |-> FALSE, val |-> "max_len"]]

url_max_len_range ==
    [min_val |-> [num |-> FALSE, val |-> "min_len"], max_val |-> [num |-> TRUE, val |-> 4]]

\* what the user may type at the prompt of a length element
Inputs ==
    {<<>>, <<"a">>, <<"3", ".", "5">>, <<"-">>, <<"-", "1">>, <<"+", "4">>, <<"0">>, <<"1">>,
     <<"2">>, <<"3">>, <<"4">>, <<"5">>, <<"1", "0">>, <<"0", "3">>}

\* CustomConfigElement._input_param, lines 410-419
custom_input_param(cfg, token, input) == IF input # <<>> THEN input ELSE cfg[token]

\* RangeCustomConfigElement._input_param and __number, lines 452-481: the
\* new value of the property `token`
range_input_param(cfg, token, rng, input) ==
    LET bound_raises(b) == ~b.num /\ int_raises(cfg[b.val])
        number(b) == IF b.num THEN b.val ELSE int(cfg[b.val])
        typed == custom_input_param(cfg, token, input)
    IN  IF bound_raises(rng.min_val) \/ bound_raises(rng.max_val) \/ int_raises(typed)
        THEN cfg[token]
        ELSE str(limit(int(typed), number(rng.min_val), number(rng.max_val)))

ConfigIdle ==
    /\ config = default_params
    /\ cfg_op = [op |-> "none"]

\* the element 'Url Min. Length': ConfigElement.__upd_param, line 368
EditMinLen ==
    /\ pc = "ready"
    /\ \E input \in Inputs :
        /\ config' = [config EXCEPT
                         !.min_len = range_input_param(config, "min_len", url_min_len_range, input)]
        /\ cfg_op' = [op |-> "min_len", input |-> input]
    /\ UNCHANGED <<codec_vars, steam_vars>>

\* the element 'Url Max. Length': ConfigElement.__upd_param, line 368
EditMaxLen ==
    /\ pc = "ready"
    /\ \E input \in Inputs :
        /\ config' = [config EXCEPT
                         !.max_len = range_input_param(config, "max_len", url_max_len_range, input)]
        /\ cfg_op' = [op |-> "max_len", input |-> input]
    /\ UNCHANGED <<codec_vars, steam_vars>>

\* the element 'Reset': config.reset_cfg, line 148
ResetCfg ==
    /\ pc = "ready"
    /\ config' = default_params
    /\ cfg_op' = [op |-> "reset"]
    /\ UNCHANGED <<codec_vars, steam_vars>>

\* GenUrlsElement.__bz_gen_urls, menu.py lines 263-270: bz_gen_urls with the
\* lengths of the configuration, its default pattern and history; an
\* exception leaves the menu loop
MenuBzGenUrls ==
    /\ pc = "ready"
    /\ LET min_len == int(config.min_len)
           max_len == int(config.max_len)
           g == bz_gen_urls(gen_list, min_len, max_len, PatternANY, TRUE)
       IN  /\ gen_list' = g.gen_list
           /\ echoed' = g.echo
           /\ last_gen' = [fn |-> "bz", min_len |-> min_len, max_len |-> max_len,
                           pattern |-> PatternANY, exc |-> g.exc]
           /\ pc' = IF g.exc # "none" THEN "crashed" ELSE "ready"
    /\ cfg_op' = [op |-> "generate"]
    /\ content' = <<>>
    /\ UNCHANGED <<check_list, tasks, stale, files, entry, gh_i, ret, runs>>
    /\ UNCHANGED <<codec_vars, config>>

Next ==
    \/ BzGenUrls
    \/ FpGenUrls
    \/ MenuCheck
    \/ GhWrapper
    \/ \E i \in 1..Len(tasks) : TaskStart(i)
    \/ \E i \in 1..Len(tasks) : TaskGetOk(i)
    \/ \E i \in 1..Len(tasks) : TaskGetFail(i)
    \/ \E i \in 1..Len(tasks) : TaskText(i)
    \/ \E i \in 1..Len(tasks) : TaskTextFail(i)
    \/ StaleTask
    \/ Interrupt
    \/ RunReturn

\* the menu and the GitHub action
Init ==
    /\ SteamInit
    /\ CodecIdle
    /\ ConfigIdle

Spec == Init /\ [][Next]_vars

\* sessions without an interrupt in which every request gets its response:
\* the event loop (line 147) runs every task that can take a step, and
\* gather (line 144) returns once all tasks are done
TaskStep ==
    \E i \in 1..Len(tasks) :
        TaskStart(i) \/ TaskGetOk(i) \/ TaskText(i) \/ TaskTextFail(i)

LiveNext ==
    \/ BzGenUrls
    \/ FpGenUrls
    \/ MenuCheck
    \/ GhWrapper
    \/ TaskStep
    \/ RunReturn

LiveSpec == Init /\ [][LiveNext]_vars /\ WF_vars(TaskStep) /\ WF_vars(RunReturn)

\* a direct caller of the two generators
GenInit ==
    /\ SteamIdle
    /\ CodecIdle
    /\ ConfigIdle

GenNext == BzGenUrls \/ FpGenUrls

GenSpec == GenInit /\ [][GenNext]_vars

\* check_list as an earlier checking run of a direct caller has left it
PriorResults == {<<"0", "a">>}

\* the generators called by a direct caller that has checked before
ApiInit ==
    /\ gen_list = <<>>
    /\ check_list \in PriorResults
    /\ tasks = <<>>
    /\ stale = EmptyBag
    /\ content = <<>>
    /\ files = [p \in Paths |-> <<>>]
    /\ pc = "ready"
    /\ entry = "api"
    /\ gh_i = 1
    /\ last_gen = [fn |-> "none"]
    /\ ret = "none"
    /\ runs = 0
    /\ echoed = <<>>
    /\ CodecIdle
    /\ ConfigIdle

ApiSpec == ApiInit /\ [][GenNext]_vars

\* calls of to_base and from_base
CodecSpecInit ==
    /\ CodecInit
    /\ SteamIdle
    /\ ConfigIdle

CodecSpec == CodecSpecInit /\ [][CodecNext]_vars

\* the configuration menu and the range-mode generation of the menu
ConfigInit ==
    /\ SteamInit
    /\ entry = "menu"
    /\ CodecIdle
    /\ ConfigIdle

ConfigNext ==
    \/ EditMinLen
    \/ EditMaxLen
    \/ ResetCfg
    \/ MenuBzGenUrls

ConfigSpec == ConfigInit /\ [][ConfigNext]_vars

\* calls of to_base over any non-empty alphabet, that of one symbol included
ToBaseInit ==
    /\ base \in Alphabets \cup {<<"a">>}
    /\ codec_pc = "idle"
    /\ arg = <<>>
    /\ tb_num = 0
    /\ tb_r = <<>>
    /\ fb_num = <<>>
    /\ fb_r = 0
    /\ SteamIdle
    /\ ConfigIdle

ToBaseNext ==
    \/ ToBaseCall
    \/ ToBaseLoop
    \/ ToBaseReturn

ToBaseSpec == ToBaseInit /\ [][ToBaseNext]_vars

(***************************************************************************)
(* Properties of the codec, checked under CodecSpec.                       *)
(***************************************************************************)
\* C1: round trip. When to_base(n, alphabet) returns for an n >= 1, from_base
\* of the returned string over the same alphabet is n.
C1_RoundTrip ==
    codec_pc = "to_base_ret" => from_base(tb_r, base) = arg[1]

C1_Witness == codec_pc = "to_base_ret" /\ Len(tb_r) >= 3 /\ tb_r[1] # tb_r[3]

\* C2: inverse round trip. When from_base(s, alphabet) returns for a non-empty
\* string s over the alphabet, to_base of the returned integer is s, and no
\* other string of the alphabet, of any length up to the bound, decodes to
\* that integer.
C2_InverseRoundTrip ==
    codec_pc = "from_base_ret" =>
        /\ to_base(fb_r, base) = [exc |-> "none", r |-> arg[1]]
        /\ \A t \in StringsOfLen(base, 1, MaxStrLen) : t # arg[1] => from_base(t, base) # fb_r

C2_Witness == codec_pc = "from_base_ret" /\ Len(arg[1]) = 2 /\ arg[1][1] = base[1]

\* s comes before t in the shortlex order of the alphabet b: shorter first,
\* equal lengths by the alphabet index of the first differing symbol
ShortlexLess(s, t, b) ==
    \/ Len(s) < Len(t)
    \/ /\ Len(s) = Len(t)
       /\ \E k \in 1..Len(s) :
            /\ \A j \in 1..(k - 1) : s[j] = t[j]
            /\ index(b, s[k]) < index(b, t[k])

AbExample == << <<"a">>, <<"b">>, <<"a", "a">>, <<"a", "b">>, <<"b", "a">>, <<"b", "b">>,
                <<"a", "a", "a">> >>

\* C3: to_base(n, alphabet) is the n-th string of the shortlex enumeration of
\* the non-empty strings over the alphabet: it is non-empty and exactly n - 1
\* non-empty strings come before it. Over "ab" the indices 1..7 give a, b, aa,
\* ab, ba, bb, aaa; index 1 gives the first symbol, index base_len the last
\* symbol, and index base_len + 1 a string of two symbols whose first is the
\* first symbol.
C3_Shortlex ==
    codec_pc = "to_base_ret" =>
        LET n == arg[1]
            base_len == Len(base)
        IN  /\ tb_r # <<>>
            /\ Cardinality({t \in StringsOfLen(base, 1, Len(tb_r)) :
                                ShortlexLess(t, tb_r, base)}) = n - 1
            /\ (base = <<"a", "b">> /\ n <= Len(AbExample)) => tb_r = AbExample[n]
            /\ n = 1 => tb_r = <<base[1]>>
            /\ n = base_len => tb_r = <<base[base_len]>>
            /\ n = base_len + 1 => Len(tb_r) = 2 /\ tb_r[1] = base[1]

C3_Witness == codec_pc = "to_base_ret" /\ base = <<"a", "b">> /\ arg[1] = 7

\* C4: to_base raises ValueError exactly for the arguments below 1, and then
\* it builds no string; for an argument of at least 1 it runs its loop and
\* returns.
C4_ValueError ==
    codec_pc \in {"ValueError", "to_base", "to_base_ret"} =>
        /\ codec_pc = "ValueError" <=> arg[1] < 1
        /\ codec_pc = "ValueError" => tb_r = <<>> /\ tb_num = 0

C4_Witness == codec_pc = "ValueError" /\ arg[1] = 0

RECURSIVE Pow(_, _)
Pow(b, e) == IF e = 0 THEN 1 ELSE b * Pow(b, e - 1)

\* S(L) = (base_len^L - 1) / (base_len - 1): the number of non-empty strings
\* of fewer than L symbols, plus one
S(base_len, L) == (Pow(base_len, L) - 1) \div (base_len - 1)

\* C25: the strings of L symbols have the indices S(L) .. S(L+1) - 1. When
\* to_base(n) returns, its result has L symbols if and only if
\* S(L) <= n < S(L+1); when from_base returns for L copies of the first
\* symbol the result is S(L), and for L copies of the last symbol it is
\* S(L+1) - 1.
C25_LengthIndexRange ==
    LET base_len == Len(base)
    IN  /\ codec_pc = "to_base_ret" =>
              \A L \in 1..(MaxStrLen + 3) :
                  Len(tb_r) = L <=> (S(base_len, L) <= arg[1] /\ arg[1] < S(base_len, L + 1))
        /\ codec_pc = "from_base_ret" =>
              LET L == Len(arg[1])
              IN  /\ arg[1] = Repeat(base[1], L) => fb_r = S(base_len, L)
                  /\ arg[1] = Repeat(base[base_len], L) => fb_r = S(base_len, L + 1) - 1

\* the last index of the strings of three symbols over "abc"
C25_Witness ==
    /\ codec_pc = "to_base_ret"
    /\ base = <<"a", "b", "c">>
    /\ arg[1] = 39
    /\ tb_r = <<"c", "c", "c">>

\* C26: termination of to_base, checked under ToBaseSpec. For every n >= 1
\* and every alphabet of at least one symbol, each iteration of the loop
\* makes the loop variable strictly smaller, and never negative.
C26_LoopDecreases ==
    [][(codec_pc = "to_base" /\ codec_pc' = "to_base") =>
            (0 <= tb_num' /\ tb_num' < tb_num)]_vars

(***************************************************************************)
(* Properties of the generators, checked under GenSpec.                    *)
(***************************************************************************)
\* C5: length-range completeness. After bz_gen_urls with valid bounds and the
\* match-anything pattern, gen_list holds exactly the strings over the
\* alphabet whose length is in min_len..max_len.
C5_LengthRangeComplete ==
    (last_gen.fn = "bz" /\ last_gen.exc = "none" /\ last_gen.pattern \in {"", PatternANY}) =>
        Elems(gen_list) = StringsOfLen(base_, last_gen.min_len, last_gen.max_len)

\* C12: bz_gen_urls raises ValueError exactly when min_len < 1 or
\* max_len < min_len, and a call that raises produces no candidate (nothing
\* is in gen_list that was not there before the call) and echoes none.
C12_InvalidBounds ==
    [][last_gen'.fn = "bz" =>
        LET a == last_gen'
        IN  /\ a.exc = "ValueError" <=> (a.min_len < 1 \/ a.max_len < a.min_len)
            /\ a.exc = "ValueError" =>
                  /\ BagOf(gen_list') \sqsubseteq BagOf(gen_list)
                  /\ echoed' = <<>>]_vars

C12_Witness ==
    /\ last_gen.fn = "bz"
    /\ last_gen.exc = "ValueError"
    /\ last_gen.min_len = 2 /\ last_gen.max_len = 1
    /\ echoed = <<>>
    /\ gen_list # <<>>

\* C27: a call of bz_gen_urls that raises ValueError for its bounds leaves
\* gen_list and check_list exactly as they were before the call.
C27_StateUnchangedOnError ==
    [][(last_gen'.fn = "bz" /\ last_gen'.exc = "ValueError") =>
          (gen_list' = gen_list /\ check_list' = check_list)]_vars

\* a call has raised with candidates generated and results held before it
C27_Witness ==
    /\ last_gen.fn = "bz"
    /\ last_gen.exc = "ValueError"
    /\ last_gen.min_len = 0
    /\ Len(gen_list) >= 2
    /\ check_list = <<"0", "a">>

\* C13: a pattern that does not compile is swallowed. A call of bz_gen_urls
\* with valid bounds and such a pattern returns without an exception and
\* leaves gen_list empty, whatever gen_list held before the call.
C13_CompileFailureSwallowed ==
    [][(/\ last_gen'.fn = "bz"
        /\ last_gen'.min_len >= 1 /\ last_gen'.max_len >= last_gen'.min_len
        /\ last_gen'.pattern = "(") =>
            /\ last_gen'.exc = "none"
            /\ gen_list' = <<>>
            /\ echoed' = <<>>]_vars

\* the call with the pattern "(" came after fp_gen_urls had read candidates
C13_Witness ==
    /\ last_gen.fn = "bz"
    /\ last_gen.pattern = "("
    /\ last_gen.min_len = 1 /\ last_gen.max_len = 2
    /\ last_gen.exc = "none"
    /\ gen_list = <<>>
    /\ files[InPath] # <<>> /\ fp_gen_urls(files[InPath][1]) # <<>>

\* the candidates bz_gen_urls(min_len, max_len) enumerates: the strings of
\* the indices from that of the all-first-symbol string of min_len symbols up
\* to, and without, that of the all-last-symbol string of max_len symbols
enumerated(min_len, max_len) ==
    LET first == from_base(Repeat(base_[1], min_len), base_)
        last == from_base(Repeat(base_[Len(base_)], max_len), base_)
    IN  {to_base(i, base_).r : i \in first..(last - 1)}

\* C14: pattern filter. After a bz_gen_urls call that compiled its pattern,
\* gen_list holds, once each, exactly the enumerated candidates the pattern
\* matches somewhere in the candidate: with the pattern 0 every enumerated
\* candidate with a 0 at any place is kept (search, not full match), and with
\* the pattern ^[0-9]+$ no candidate with a letter is kept and every
\* enumerated all-digit candidate is.
C14_PatternFilter ==
    (last_gen.fn = "bz" /\ last_gen.exc = "none" /\ last_gen.pattern # "(") =>
        LET pat == IF last_gen.pattern = "" THEN PatternANY ELSE last_gen.pattern
            enum == enumerated(last_gen.min_len, last_gen.max_len)
            digits_only(u) == \A k \in 1..Len(u) : u[k] \in {"0", "1"}
        IN  /\ Elems(gen_list) = {u \in enum : search(pat, u)}
            /\ \A i, j \in 1..Len(gen_list) : gen_list[i] = gen_list[j] => i = j
            /\ pat = "0" =>
                  Elems(gen_list) = {u \in enum : \E k \in 1..Len(u) : u[k] = "0"}
            /\ pat = PatternONLY_DIGITS =>
                  Elems(gen_list) = {u \in enum : digits_only(u)}
            /\ pat = PatternANY => Elems(gen_list) = enum

C14_Witness ==
    /\ last_gen.fn = "bz"
    /\ last_gen.pattern = PatternONLY_DIGITS
    /\ last_gen.min_len = 1 /\ last_gen.max_len = 2
    /\ gen_list = << <<"0">> >>

\* C15: a generation call that returns replaces the candidate sequence.
\* After any sequence of bz_gen_urls and fp_gen_urls calls gen_list is what
\* the last call that returned yields when it starts from an empty gen_list:
\* nothing of an earlier call is left in it.
C15_Replaces ==
    /\ (last_gen.fn = "bz" /\ last_gen.exc = "none") =>
          gen_list = bz_gen_urls(<<>>, last_gen.min_len, last_gen.max_len,
                                 last_gen.pattern, FALSE).gen_list
    /\ last_gen.fn = "fp" =>
          gen_list = fp_gen_urls(IF last_gen.file = <<>> THEN <<>> ELSE last_gen.file[1])

\* a range call that left only "a" after a file call had read "0" and "a0"
C15_Witness ==
    /\ last_gen.fn = "bz"
    /\ last_gen.exc = "none"
    /\ gen_list = << <<"a">> >>
    /\ files[InPath] = <<join(<< <<"0">>, <<>>, <<"a", "0">>, <<>> >>)>>

\* the places of a text where a non-empty line starts, and where the line
\* that starts at place k ends
line_starts(text) ==
    {k \in 1..Len(text) : text[k] # "\n" /\ (k = 1 \/ text[k - 1] = "\n")}

line_end(text, k) ==
    CHOOSE e \in k..Len(text) :
        /\ \A j \in k..e : text[j] # "\n"
        /\ e = Len(text) \/ text[e + 1] = "\n"

\* C16: file mode. After fp_gen_urls, gen_list holds the non-empty lines of
\* the file, each of them, in file order, whatever pattern an earlier range
\* call was given; a file that did not exist exists and is empty after the
\* call, and gen_list is empty; a file that existed is left as it was.
C16_FileMode ==
    last_gen.fn = "fp" =>
        LET text == IF last_gen.file = <<>> THEN <<>> ELSE last_gen.file[1]
            starts == line_starts(text)
            before(k) == Cardinality({j \in starts : j < k})
        IN  /\ files[InPath] = <<text>>
            /\ last_gen.file = <<>> => gen_list = <<>>
            /\ Len(gen_list) = Cardinality(starts)
            /\ \A k \in starts : gen_list[before(k) + 1] = SubSeq(text, k, line_end(text, k))

C16_Witness ==
    /\ last_gen.fn = "fp"
    /\ last_gen.file = <<join(<< <<"0">>, <<>>, <<"a", "0">>, <<>> >>)>>
    /\ gen_list = << <<"0">>, <<"a", "0">> >>

(***************************************************************************)
(* Properties of the checking run, checked under Spec.                     *)
(***************************************************************************)
\* the candidates the tasks of the latest run have confirmed, as a bag
RECURSIVE confirmed_urls(_)
confirmed_urls(ts) ==
    IF ts = <<>> THEN EmptyBag
    ELSE (IF Head(ts).st = "ok" THEN SetToBag({Head(ts).url}) ELSE EmptyBag)
         (+) confirmed_urls(Tail(ts))

\* the file the caller saves the results of the check to
SavePath == IF entry = "github" THEN GhPath(GhCalls[IF gh_i > Len(GhCalls) THEN Len(GhCalls) ELSE gh_i].endpoint)
            ELSE OutPath

\* C6: partial-failure tolerance. No failure of a single candidate reaches
\* the caller of check_urls: check_urls never ends by raising ClientError, and
\* when it has returned every candidate its tasks confirmed is in check_list.
C6_PartialFailureTolerance ==
    /\ ret # "ClientError"
    /\ pc # "crashed"
    /\ ret = "returned" =>
         \A i \in 1..Len(tasks) : tasks[i].st = "ok" => tasks[i].url \in Elems(check_list)

\* C7: check_urls called with an empty candidate sequence leaves check_list
\* empty, whatever an earlier run left in it, and the save_urls that follows
\* writes an empty result.
C7_EmptyRunEmptyResult ==
    ret = "empty" =>
        /\ check_list = <<>>
        /\ files[SavePath] = << <<>> >>

\* C8: de-duplication. No two lines of a file written by save_urls are equal,
\* already in the first checking run of a session.
C8_Deduplicated ==
    \A p \in Paths \ {InPath} :
        (runs <= 1 /\ files[p] # <<>>) =>
            LET lines == non_empty(split(files[p][1]))
            IN  \A i, j \in 1..Len(lines) : lines[i] = lines[j] => i = j

\* C9: interruption preserves partial results. After a checking run was
\* interrupted, check_list holds exactly the candidates that the tasks of
\* that run had completed and confirmed.
C9_InterruptKeepsPartial ==
    ret = "KeyboardInterrupt" => BagOf(check_list) = confirmed_urls(tasks)

\* C10: after a checking run was interrupted and control is back in its
\* caller, save_urls has written the partial results, whichever entry point
\* ran the check.
C10_InterruptThenSaved ==
    (ret = "KeyboardInterrupt" /\ pc \in {"ready", "exited"}) =>
        files[SavePath] = <<save_text(check_list)>>

\* the candidate of the task that read its response body in the step: a stale
\* task leaves the bag, a task of the run changes its state
read_url ==
    IF stale' # stale
    THEN CHOOSE u \in BagToSet(stale) : stale' = stale (-) SetToBag({u})
    ELSE tasks[CHOOSE i \in 1..Len(tasks) : tasks'[i] # tasks[i]].url

\* C11: availability predicate. A step in which a task reads its response
\* body appends the candidate of that task to check_list if and only if the
\* body is non-empty, holds the marker <p class="returnLink"> and does not
\* hold "This group has been removed"; otherwise, and so for the empty body
\* and for a body with both markers, check_list is left as it was.
C11_Availability ==
    [][content' # <<>> =>
        LET body == content'[1]
            has(m) == \E k \in 1..Len(body) : body[k] = m
        IN  IF Len(body) > 0 /\ has(ReturnLink) /\ ~has(Removed)
            THEN check_list' = Append(check_list, read_url)
            ELSE check_list' = check_list]_vars

C11_Witness ==
    /\ content = << <<ReturnLink>> >>
    /\ Len(check_list) = 2
    /\ \E i \in 1..Len(tasks) : tasks[i].st = "ok" /\ tasks[i].url = check_list[2]
    /\ \E i \in 1..Len(tasks) : tasks[i].st = "no"

\* control is back in the caller of check_urls and the caller has called
\* save_urls; the file that call wrote
just_saved ==
    \/ entry = "menu" /\ pc = "ready" /\ ret \in {"returned", "empty", "KeyboardInterrupt"}
    \/ entry = "github" /\ pc \in {"ready", "exited"} /\ ret \in {"returned", "empty"}

saved_path == IF entry = "menu" THEN OutPath ELSE GhPath(GhCalls[gh_i - 1].endpoint)

\* C17: save_urls writes the elements of check_list, each on a line of its
\* own, the lines in ascending order of their characters' code points and
\* separated by single newlines (no empty line, no newline at the end),
\* whatever the order in which the tasks appended them.
C17_SortedOutput ==
    just_saved =>
        /\ files[saved_path] # <<>>
        /\ LET text == files[saved_path][1]
               lines == split(text)
           IN  /\ check_list = <<>> => text = <<>>
               /\ check_list # <<>> => BagOf(lines) = BagOf(check_list)
               /\ \A i, j \in 1..Len(lines) : i < j => ~str_lt(lines[j], lines[i])

\* "a0" was confirmed before "0" and the file lists "0" first
C17_Witness ==
    /\ just_saved
    /\ check_list = << <<"a", "0">>, <<"0">> >>
    /\ files[saved_path] = <<join(<< <<"0">>, <<"a", "0">> >>)>>

\* a step in which the caller of check_urls calls save_urls: at the end of a
\* run, or after check_urls found gen_list empty
save_step ==
    /\ just_saved'
    /\ pc = "checking" \/ (ret' = "empty" /\ ret # "empty")

\* C18: save_urls is idempotent and does not touch check_list. A save_urls
\* call leaves check_list as it was, elements and order; the file it wrote
\* is what a second call right after it writes; and when the menu calls
\* save_urls with no run in between (check_urls found gen_list empty) the
\* output file is the same after the second call as after the first.
C18_IdempotentSave ==
    [][save_step =>
        /\ check_list' = check_list
        /\ save_urls(saved_path', check_list').files = files'
        /\ save_urls(saved_path', check_list').check_list = check_list'
        /\ (just_saved /\ saved_path' = saved_path) =>
                files'[saved_path'] = files[saved_path]]_vars

\* the second of two save_urls calls in a row, check_list not being sorted
C18_Witness ==
    /\ entry = "menu"
    /\ just_saved
    /\ ret = "empty"
    /\ check_list = << <<"a", "0">>, <<"0">> >>
    /\ files[OutPath] = <<join(<< <<"0">>, <<"a", "0">> >>)>>

\* C19: an interrupt does not leave check_urls. No call of check_urls ends
\* by raising KeyboardInterrupt to its caller: an interrupted run ends as a
\* normal return of check_urls.
C19_InterruptNotPropagated ==
    ret # "KeyboardInterrupt"

\* C20: run isolation. During a checking run and after it, every element of
\* check_list was appended by a task of that run that confirmed its own
\* candidate: as a bag, check_list is within the candidates of the tasks of
\* the latest run that ended confirmed. No task of an earlier, interrupted
\* run appends to it.
C20_RunIsolation ==
    BagOf(check_list) \sqsubseteq confirmed_urls(tasks)

\* the candidates of the tasks of ts that ended confirmed, in candidate order
RECURSIVE confirmed_in_order(_)
confirmed_in_order(ts) ==
    IF ts = <<>> THEN <<>>
    ELSE (IF Head(ts).st = "ok" THEN <<Head(ts).url>> ELSE <<>>)
         \o confirmed_in_order(Tail(ts))

\* C21: order independence. When an uninterrupted run has returned and its
\* caller has saved, check_list and the file depend only on the candidate
\* sequence and on the response each task got, not on the order in which
\* the tasks ran: check_list holds, as a bag, the candidates of the tasks
\* that got an available body (no insertion lost, none added), and the file
\* is the sorted text of those candidates.
C21_OrderIndependence ==
    (ret = "returned" /\ just_saved) =>
        /\ BagOf(check_list) = confirmed_urls(tasks)
        /\ files[saved_path] = <<save_text(confirmed_in_order(tasks))>>

\* gl is in strictly increasing shortlex order of the alphabet of bz_gen_urls
\* (so without a duplicate) and its elements have min_len..max_len symbols
range_mode_sequence(gl, min_len, max_len) ==
    /\ \A i \in 1..Len(gl) : Len(gl[i]) >= min_len /\ Len(gl[i]) <= max_len
    /\ \A i \in 1..(Len(gl) - 1) : ShortlexLess(gl[i], gl[i + 1], base_)
    /\ \A i, j \in 1..Len(gl) : gl[i] = gl[j] => i = j

\* C28: after a range-mode generation gen_list is in strictly increasing
\* shortlex order, without a duplicate, its elements of min_len..max_len
\* symbols; and while a checking run over such a sequence is on, no step
\* inserts into check_list a candidate that is already in it.
C28_RangeModeNoDuplicate ==
    [][/\ (last_gen'.fn = "bz" /\ last_gen'.exc = "none") =>
             range_mode_sequence(gen_list', last_gen'.min_len, last_gen'.max_len)
       /\ (/\ last_gen.fn = "bz" /\ last_gen.exc = "none"
           /\ pc = "checking"
           /\ Len(check_list') > Len(check_list)) =>
             check_list'[Len(check_list')] \notin Elems(check_list)]_vars

\* C29: frame. No step of check_urls or of the save_urls after it changes
\* gen_list (the wrapper of github.py, which generates and checks in one
\* call, leaves gen_list as bz_gen_urls built it); no call of bz_gen_urls or
\* fp_gen_urls changes check_list; and from the clear at the start of a run
\* to the save_urls at its end every step leaves check_list as it was or
\* longer by one element at its end.
C29_Frame ==
    [][/\ (pc = "checking" \/ MenuCheck) => gen_list' = gen_list
       /\ GhWrapper =>
             gen_list' = bz_gen_urls(gen_list, GhCalls[gh_i].min_len, GhCalls[gh_i].max_len,
                                     "", FALSE).gen_list
       /\ (BzGenUrls \/ FpGenUrls) => check_list' = check_list
       /\ pc = "checking" =>
             /\ Len(check_list') \in {Len(check_list), Len(check_list) + 1}
             /\ \A k \in 1..Len(check_list) : check_list'[k] = check_list[k]]_vars

\* a second run is on, over a sequence the file mode has generated since
\* the first, and two of its steps have appended different candidates
C29_Witness ==
    /\ entry = "menu"
    /\ pc = "checking"
    /\ runs = 2
    /\ Len(check_list) = 2
    /\ check_list[1] # check_list[2]
    /\ last_gen.fn = "fp"

\* C22: one task per candidate, one request per task, no waiting. While a
\* run is on, there is exactly one task for each element of gen_list, in its
\* order; a task issues its request only when it starts and never again,
\* whatever happens to the request; and a task that has not started can
\* start whatever the states of the other tasks.
C22_OneTaskOneRequest ==
    [][/\ pc' = "checking" =>
            /\ Len(tasks') = Len(gen_list')
            /\ \A i \in 1..Len(tasks') : tasks'[i].url = gen_list'[i]
       /\ (pc = "checking" /\ pc' = "checking") =>
            \A i \in 1..Len(tasks) :
                /\ tasks'[i].url = tasks[i].url
                /\ tasks'[i].st = "new" => tasks[i].st = "new"
                /\ (tasks'[i].st = "get" /\ tasks[i].st # "get") => tasks[i].st = "new"
       /\ pc = "checking" =>
            \A i \in 1..Len(tasks) : tasks[i].st = "new" => ENABLED TaskStart(i)]_vars

\* the requests of all three candidates are in flight at once
C22_Witness ==
    /\ pc = "checking"
    /\ Len(tasks) = 3
    /\ \A i \in 1..Len(tasks) : tasks[i].st = "get"

\* C23: all candidates checked. In a session without interrupt in which
\* every request gets its response, a check_urls call that dispatched tasks
\* eventually returns, and then every candidate of gen_list has a task that
\* is done and check_list holds exactly the candidates whose body satisfied
\* the availability predicate.
C23_AllChecked ==
    (pc = "checking") ~>
        (/\ ret = "returned"
         /\ Len(tasks) = Len(gen_list)
         /\ \A i \in 1..Len(tasks) :
               tasks[i].url = gen_list[i] /\ tasks[i].st \in {"ok", "no", "err"}
         /\ BagOf(check_list) = confirmed_urls(tasks))

C23_Witness ==
    /\ ret = "returned"
    /\ Len(tasks) = 3
    /\ tasks[1].st = "no" /\ tasks[2].st = "ok" /\ tasks[3].st = "err"
    /\ check_list = <<tasks[2].url>>

\* C24: echo before outcome. With history set, no task prints its candidate
\* more than once, and every task whose outcome is decided (appended,
\* excluded, failed in the request or in reading the body) has printed its
\* candidate before.
C24_EchoBeforeOutcome ==
    history_of(entry) =>
        \A i \in 1..Len(tasks) :
            /\ tasks[i].echo <= 1
            /\ tasks[i].st \in {"ok", "no", "err", "exc"} => tasks[i].echo = 1

(***************************************************************************)
(* Properties of the configuration menu, checked under ConfigSpec.         *)
(***************************************************************************)
\* C30: from the default configuration, after any sequence of edits of the
\* two length properties, with any input, and of resets, both properties
\* are numerals with 2 <= min_len <= max_len <= 4, and the range-mode
\* generation of the menu has not raised ValueError.
C30_ConfigBounds ==
    /\ ~int_raises(config.min_len)
    /\ ~int_raises(config.max_len)
    /\ 2 <= int(config.min_len)
    /\ int(config.min_len) <= int(config.max_len)
    /\ int(config.max_len) <= 4
    /\ last_gen.fn = "bz" => last_gen.exc = "none"
    /\ pc # "crashed"

\* min_len typed as -1 with max_len at 4: the floor 2 is stored
C30_Witness ==
    /\ cfg_op = [op |-> "min_len", input |-> <<"-", "1">>]
    /\ config = [min_len |-> <<"2">>, max_len |-> <<"4">>]
    /\ last_gen.fn = "bz"

====
